---- MODULE Spec2Model ----
(***************************************************************************)
(* The asynchronous write path of the disc bag.                            *)
(*                                                                         *)
(*   Command API (App/backend/main.py)  --producer.send-->  Kafka topic    *)
(*   Kafka topic  --consumer loop (App/backend/worker.py)-->  bags         *)
(*   bags (MongoDB collection)  --find_one-->  Query API (main.py)         *)
(*                                                                         *)
(* Python dicts are records; a key that is absent from a dict is absent    *)
(* from the record's DOMAIN.  The Kafka client and the MongoDB server are  *)
(* libraries: each call is modelled by the outcomes the call can have.     *)
(***************************************************************************)
EXTENDS Integers, Sequences, FiniteSets, TLC

\* ------------------------------------------------------------------ bounds
MaxLog == 2          \* Spec: records in the topic, all partitions together
MaxForeign == 1      \* Spec: records in the topic not written by the Command API
MaxClock == 2        \* Spec: the wall clock is read at most MaxClock times
MaxTopic == 4        \* SpecWorker: records in the topic that the worker is given
MaxRestarts == 1     \* Spec: worker restarts
NumPartitions == 2   \* partitions of the topic (deployment setting)

Partitions == 1..NumPartitions
Users == {"u1", "u2"}            \* user_id values that requests carry
DiscIdInputs == {"1", "2", "9"}  \* disc_id values that requests carry

VARIABLES
    producer,    \* main.py: the module-level producer; FALSE is None
    log,         \* the topic: log[p] is the sequence of records of partition p
    pos,         \* worker of partition p: records handed to the loop so far
    committed,   \* consumer group 'bag-worker-group': committed offset of p
    alive,       \* worker of partition p: the consume loop is running
    bags,        \* MongoDB collection db['bags'], in insertion order
    issued,      \* user ids that uuid4() has returned to register_user
    clock,       \* last reading of datetime.utcnow()
    resp,        \* what the last Command API call returned to its caller
    applied,     \* history: <<p, offset>> of every store write that succeeded
    restarts,    \* history: number of worker restarts
    inflight,    \* worker of partition p: its upsert found no document and has
                 \* not inserted yet
    api_status,  \* the Command/Query API process: "starting", "running",
                 \* "exited_0", "exited_1" (exit status)
    worker_status, \* the same for the worker process of partition p
    threads      \* request threads of the API that have built their event and
                 \* have not reached 'if producer:' yet

vars == <<producer, log, pos, committed, alive, bags, issued, clock, resp,
          applied, restarts, inflight, api_status, worker_status, threads>>

\* ------------------------------------------------------------ dict helpers
HasKey(d, k) == k \in DOMAIN d

\* datetime.utcnow().isoformat(): the text of the clock reading t
isoformat(t) == <<"T", t>>

\* ------------------------------------------------------------ disc catalog
discs_catalog ==
    << [id |-> "1", name |-> "Innova Destroyer", manufacturer |-> "Innova",
        type |-> "Distance Driver", speed |-> 12, glide |-> 5, turn |-> -1,
        fade |-> 3, stability |-> "Overstable"],
       [id |-> "2", name |-> "Discraft Buzzz", manufacturer |-> "Discraft",
        type |-> "Midrange", speed |-> 5, glide |-> 4, turn |-> -1,
        fade |-> 1, stability |-> "Stable"],
       [id |-> "3", name |-> "Innova Aviar", manufacturer |-> "Innova",
        type |-> "Putter", speed |-> 3, glide |-> 3, turn |-> 0,
        fade |-> 1, stability |-> "Stable"] >>

\* next((d for d in discs_catalog if d.id == disc_id), None): the matches, in
\* catalog order; the empty sequence is None, otherwise the head is the disc
CatalogLookup(disc_id) == SelectSeq(discs_catalog, LAMBDA d : d.id = disc_id)

\* ---------------------------------------------------------------- envelopes
UserRegisteredEvent(user_id, username, email, now) ==
    [event_type |-> "UserRegistered",
     payload |-> [user_id |-> user_id, username |-> username, email |-> email,
                  password_hash |-> "hashed_secret"],
     timestamp |-> isoformat(now)]

\* DiscAddedEvent that carries the id of the disc in place of disc.dict()
DiscAddedEvent_IdOnly(user_id, disc, now) ==
    [event_type |-> "DiscAddedToBag",
     payload |-> [user_id |-> user_id, disc_data |-> [id |-> disc.id]],
     timestamp |-> isoformat(now)]

DiscAddedEvent(user_id, disc, now) ==
    [event_type |-> "DiscAddedToBag",
     payload |-> [user_id |-> user_id, disc_data |-> disc],
     timestamp |-> isoformat(now)]

DiscRemovedEvent(user_id, disc_id, now) ==
    [event_type |-> "DiscRemovedFromBag",
     payload |-> [user_id |-> user_id, disc_id |-> disc_id],
     timestamp |-> isoformat(now)]

\* value_serializer: json.dumps(v).encode('utf-8').  Bytes are records: a JSON
\* object carries its dict under "json"; bytes that no serializer of this
\* program wrote carry "json_text" (JSON, but not an object) or "raw" (not
\* UTF-8, or not JSON)
value_serializer(v) == [json |-> v]

\* value_deserializer: json.loads(x.decode('utf-8')) raises on "raw" bytes
Deserializes(bytes) == HasKey(bytes, "json") \/ HasKey(bytes, "json_text")
IsDict(bytes) == HasKey(bytes, "json")
value_deserializer(bytes) == bytes.json

\* A record of the topic: the bytes of its value, and as history the writer
\* (src) and the position in the order of publication (seq)
Record(bytes, src, seq) == [bytes |-> bytes, src |-> src, seq |-> seq]

TotalLen == LET RECURSIVE Sum(_)
                Sum(p) == IF p = 0 THEN 0 ELSE Len(log[p]) + Sum(p - 1)
            IN  Sum(NumPartitions)

\* ------------------------------------------------------- MongoDB collection
\* the documents that the filter {"user_id": user_id} matches, as indexes
Matching(coll, user_id) == {i \in 1..Len(coll) : coll[i].user_id = user_id}

\* update_one updates the first document that the filter matches
FirstMatch(coll, user_id) ==
    CHOOSE i \in Matching(coll, user_id) :
        \A j \in Matching(coll, user_id) : i <= j

\* as UpsertSetOnInsert, with "$set" where the code has "$setOnInsert"
UpsertSetOnInsert_Set(coll, user_id, ts) ==
    IF Matching(coll, user_id) # {}
    THEN LET i == FirstMatch(coll, user_id)
         IN  [coll EXCEPT ![i].discs = <<>>, ![i].updated_at = ts]
    ELSE Append(coll, [user_id |-> user_id, discs |-> <<>>, updated_at |-> ts])

\* update_one({"user_id": u}, {"$setOnInsert": {user_id, discs: [], updated_at}},
\*            upsert=True)
UpsertSetOnInsert(coll, user_id, ts) ==
    IF Matching(coll, user_id) # {}
    THEN coll
    ELSE Append(coll, [user_id |-> user_id, discs |-> <<>>, updated_at |-> ts])

\* update_one({"user_id": u}, {"$push": {"discs": disc_data},
\*                             "$set": {"updated_at": ts}}, upsert=True)
\* UpsertPush whose $set of updated_at is a $setOnInsert: an existing document
\* keeps its stamp
UpsertPush_SetOnInsert(coll, user_id, disc_data, ts) ==
    IF Matching(coll, user_id) # {}
    THEN LET i == FirstMatch(coll, user_id)
         IN  [coll EXCEPT ![i].discs = Append(@, disc_data)]
    ELSE Append(coll, [user_id |-> user_id, discs |-> <<disc_data>>,
                       updated_at |-> ts])

UpsertPush(coll, user_id, disc_data, ts) ==
    IF Matching(coll, user_id) # {}
    THEN LET i == FirstMatch(coll, user_id)
         IN  [coll EXCEPT ![i].discs = Append(@, disc_data),
                          ![i].updated_at = ts]
    ELSE Append(coll, [user_id |-> user_id, discs |-> <<disc_data>>,
                       updated_at |-> ts])

\* as UpdatePull, with {"$pull": {"discs": disc_id}}: the condition then asks
\* for an entry that equals the id, and no entry, being a dict, does
UpdatePull_ByValue(coll, user_id, disc_id, ts) ==
    IF Matching(coll, user_id) # {}
    THEN [coll EXCEPT ![FirstMatch(coll, user_id)].updated_at = ts]
    ELSE coll

\* as UpdatePull, with upsert=True as in the two other branches
UpdatePull_Upsert(coll, user_id, disc_id, ts) ==
    IF Matching(coll, user_id) # {}
    THEN LET i == FirstMatch(coll, user_id)
         IN  [coll EXCEPT
                ![i].discs = SelectSeq(@, LAMBDA d : ~(HasKey(d, "id") /\ d.id = disc_id)),
                ![i].updated_at = ts]
    ELSE Append(coll, [user_id |-> user_id, discs |-> <<>>, updated_at |-> ts])

\* update_one({"user_id": u}, {"$pull": {"discs": {"id": disc_id}},
\*                             "$set": {"updated_at": ts}})
\* UpdatePull without the $set of updated_at
UpdatePull_NoStamp(coll, user_id, disc_id, ts) ==
    IF Matching(coll, user_id) # {}
    THEN LET i == FirstMatch(coll, user_id)
         IN  [coll EXCEPT
                ![i].discs = SelectSeq(@, LAMBDA d : ~(HasKey(d, "id") /\ d.id = disc_id))]
    ELSE coll

\* UpdatePull that takes out the first matching entry only
UpdatePull_First(coll, user_id, disc_id, ts) ==
    IF Matching(coll, user_id) # {}
    THEN LET i == FirstMatch(coll, user_id)
             hits == {k \in 1..Len(coll[i].discs) : coll[i].discs[k].id = disc_id}
             first == IF hits = {} THEN 0 ELSE CHOOSE k \in hits : \A h \in hits : k <= h
         IN  [coll EXCEPT
                ![i].discs = [k \in 1..(Len(@) - (IF first = 0 THEN 0 ELSE 1)) |->
                                IF first = 0 \/ k < first THEN @[k] ELSE @[k + 1]],
                ![i].updated_at = ts]
    ELSE coll

UpdatePull(coll, user_id, disc_id, ts) ==
    IF Matching(coll, user_id) # {}
    THEN LET i == FirstMatch(coll, user_id)
         IN  [coll EXCEPT
                ![i].discs = SelectSeq(@, LAMBDA d : ~(HasKey(d, "id") /\ d.id = disc_id)),
                ![i].updated_at = ts]
    ELSE coll

\* ------------------------------------------------------------------ worker
\* One pass of the body of "for message in consumer" for the record rec, with
\* the collection coll; storeOk says whether a store write of this pass
\* succeeds.  The result is the collection afterwards and what happened:
\*   "applied"  a branch ran to its end (update_one returned)
\*   "error"    an exception reached "except Exception" and was logged
\*   "ignored"  no branch matched the event_type
\*   "raised"   the iterator raised while deserializing: the exception leaves
\*              the for statement, which is outside the try
Process(coll, rec, storeOk) ==
    LET event == value_deserializer(rec.bytes)
        Err == [bags |-> coll, outcome |-> "error"]
        Write(after) == IF storeOk THEN [bags |-> after, outcome |-> "applied"]
                        ELSE Err
    IN
    IF ~Deserializes(rec.bytes) THEN [bags |-> coll, outcome |-> "raised"]
    ELSE IF ~IsDict(rec.bytes) THEN Err         \* event.get: AttributeError
    ELSE IF ~HasKey(event, "event_type") THEN [bags |-> coll, outcome |-> "ignored"]
    ELSE IF event.event_type = "UserRegistered" THEN
        IF ~HasKey(event, "payload") THEN Err                 \* TypeError
        ELSE IF ~HasKey(event.payload, "user_id") THEN Err    \* KeyError
        ELSE IF ~HasKey(event, "timestamp") THEN Err          \* KeyError
        ELSE Write(UpsertSetOnInsert(coll, event.payload.user_id, event.timestamp))
    ELSE IF event.event_type = "DiscAddedToBag" THEN
        IF ~HasKey(event, "payload") THEN Err
        ELSE IF ~HasKey(event.payload, "user_id") THEN Err
        ELSE IF ~HasKey(event.payload, "disc_data") THEN Err
        ELSE IF ~HasKey(event, "timestamp") THEN Err
        ELSE Write(UpsertPush(coll, event.payload.user_id,
                              event.payload.disc_data, event.timestamp))
    ELSE IF event.event_type = "DiscRemovedFromBag" THEN
        IF ~HasKey(event, "payload") THEN Err
        ELSE IF ~HasKey(event.payload, "user_id") THEN Err
        ELSE IF ~HasKey(event.payload, "disc_id") THEN Err
        ELSE IF ~HasKey(event, "timestamp") THEN Err
        ELSE Write(UpdatePull(coll, event.payload.user_id,
                              event.payload.disc_id, event.timestamp))
    ELSE [bags |-> coll, outcome |-> "ignored"]

\* The worker of partition p takes the next record of its partition and runs
\* the loop body on it.  The consumer's position moves as the record is handed
\* out, whatever the body then does with it.
Consume(p) ==
    /\ alive[p]
    /\ ~inflight[p]
    /\ pos[p] < Len(log[p])
    /\ \E storeOk \in BOOLEAN :
         LET off == pos[p] + 1
             r == Process(bags, log[p][off], storeOk)
         IN  IF r.outcome = "raised"
             THEN /\ alive' = [alive EXCEPT ![p] = FALSE]
                  /\ worker_status' = [worker_status EXCEPT ![p] = "exited_1"]
                  /\ UNCHANGED <<pos, bags, applied>>
             ELSE /\ pos' = [pos EXCEPT ![p] = off]
                  /\ bags' = r.bags
                  /\ applied' = IF r.outcome = "applied"
                                THEN Append(applied, <<p, off>>)
                                ELSE applied
                  /\ UNCHANGED <<alive, worker_status>>
    /\ UNCHANGED <<producer, log, committed, issued, clock, resp, restarts,
                   inflight, api_status, threads>>

\* enable_auto_commit=True: the consumer commits its position from inside the
\* iterator, between two passes of the loop body
AutoCommit(p) ==
    /\ alive[p]
    /\ committed[p] < pos[p]
    /\ committed' = [committed EXCEPT ![p] = pos[p]]
    /\ UNCHANGED <<inflight, api_status, worker_status, producer, log, pos, alive, bags, issued, clock, resp,
                   applied, restarts, threads>>

\* The worker process of partition p stops (killed, or its loop has ended) and
\* is started again: group_id='bag-worker-group' resumes at the committed offset
Restart(p) ==
    /\ restarts < MaxRestarts
    /\ restarts' = restarts + 1
    /\ pos' = [pos EXCEPT ![p] = committed[p]]
    /\ alive' = [alive EXCEPT ![p] = TRUE]
    /\ worker_status' = [worker_status EXCEPT ![p] = "running"]
    /\ UNCHANGED <<producer, log, committed, bags, issued, clock, resp, applied,
                   inflight, api_status, threads>>

\* ------------------------------------------------------------- Command API
\* datetime.utcnow(): the clock has moved on since the last reading
Readings == {t \in {clock + 1} : t <= MaxClock}

Usernames == {"ann"}
Emails == {"ann@example.org"}

\* producer.send(config.KAFKA_TOPIC_BAG_UPDATES, event): no key is given, so
\* the partitioner picks the partition.  send returns a future that nobody
\* waits for.  out is what becomes of the call:
\*   "appended"  the broker appends the record to a partition
\*   "lost"      send returns, the delivery fails later (broker unreachable)
\*   "raised"    send itself raises (no metadata within max_block_ms)
SendOutcomes == {"appended", "lost", "raised"}

KafkaSend(event, out) ==
    IF out = "appended"
    THEN /\ TotalLen < MaxLog
         /\ \E part \in Partitions :
              log' = [log EXCEPT ![part] =
                        Append(@, Record(value_serializer(event), "api", TotalLen + 1))]
    ELSE UNCHANGED log

Response(cmd, status, published) ==
    [cmd |-> cmd, status |-> status, published |-> published]

\* POST /register
register_user(username, email) ==
    \E new_user_id \in Users \ issued, now \in Readings :
        LET event == UserRegisteredEvent(new_user_id, username, email, now)
        IN  /\ issued' = issued \cup {new_user_id}
            /\ clock' = now
            /\ IF producer
               THEN \E out \in SendOutcomes :
                      /\ KafkaSend(event, out)
                      /\ resp' = IF out = "raised"
                                 THEN Response("register", "exception", FALSE)
                                 ELSE Response("register", "accepted", out = "appended")
               ELSE /\ UNCHANGED log
                    /\ resp' = Response("register", "accepted", FALSE)
            /\ UNCHANGED <<inflight, api_status, worker_status, producer, pos, committed, alive, bags, applied, restarts, threads>>

\* add_disc_to_bag without the catalog check of lines 130-132: an unknown id is
\* published as a disc that has only its id
add_disc_to_bag_Unchecked(user_id, disc_id) ==
    LET found == CatalogLookup(disc_id)
        disc == IF found = <<>> THEN [id |-> disc_id] ELSE Head(found)
    IN  /\ \E now \in Readings :
              LET event == DiscAddedEvent(user_id, disc, now)
              IN  /\ clock' = now
                  /\ IF producer
                     THEN \E out \in SendOutcomes :
                            /\ KafkaSend(event, out)
                            /\ resp' = IF out = "raised"
                                       THEN Response("add", "exception", FALSE)
                                       ELSE Response("add", "queued", out = "appended")
                     ELSE /\ UNCHANGED log
                          /\ resp' = Response("add", "error", FALSE)
        /\ UNCHANGED <<inflight, api_status, worker_status, producer, pos, committed, alive, bags, issued, applied, restarts, threads>>

\* POST /bag/add
add_disc_to_bag(user_id, disc_id) ==
    LET found == CatalogLookup(disc_id)
    IN  /\ IF found = <<>>
           THEN /\ resp' = Response("add", "not_found", FALSE)
                /\ UNCHANGED <<log, clock>>
           ELSE \E now \in Readings :
                  LET event == DiscAddedEvent(user_id, Head(found), now)
                  IN  /\ clock' = now
                      /\ IF producer
                         THEN \E out \in SendOutcomes :
                                /\ KafkaSend(event, out)
                                /\ resp' = IF out = "raised"
                                           THEN Response("add", "exception", FALSE)
                                           ELSE Response("add", "queued", out = "appended")
                         ELSE /\ UNCHANGED log
                              /\ resp' = Response("add", "error", FALSE)
        /\ UNCHANGED <<inflight, api_status, worker_status, producer, pos, committed, alive, bags, issued, applied, restarts, threads>>

\* remove_disc_from_bag that also pulls the disc from the bag document itself
remove_disc_from_bag_WriteThrough(user_id, disc_id) ==
    \E now \in Readings :
        LET event == DiscRemovedEvent(user_id, disc_id, now)
        IN  /\ clock' = now
            /\ bags' = UpdatePull(bags, user_id, disc_id, isoformat(now))
            /\ IF producer
               THEN \E out \in SendOutcomes :
                      /\ KafkaSend(event, out)
                      /\ resp' = IF out = "raised"
                                 THEN Response("remove", "exception", FALSE)
                                 ELSE Response("remove", "queued", out = "appended")
               ELSE /\ UNCHANGED log
                    /\ resp' = Response("remove", "error", FALSE)
            /\ UNCHANGED <<inflight, api_status, worker_status, producer, pos, committed, alive, issued, applied, restarts, threads>>

\* DELETE /bag/remove
remove_disc_from_bag(user_id, disc_id) ==
    \E now \in Readings :
        LET event == DiscRemovedEvent(user_id, disc_id, now)
        IN  /\ clock' = now
            /\ IF producer
               THEN \E out \in SendOutcomes :
                      /\ KafkaSend(event, out)
                      /\ resp' = IF out = "raised"
                                 THEN Response("remove", "exception", FALSE)
                                 ELSE Response("remove", "queued", out = "appended")
               ELSE /\ UNCHANGED log
                    /\ resp' = Response("remove", "error", FALSE)
            /\ UNCHANGED <<inflight, api_status, worker_status, producer, pos, committed, alive, bags, issued, applied, restarts, threads>>

\* ---------------------------------------------------------------- Query API
\* bags_collection.find_one({"user_id": user_id}): None is <<>>, a document is
\* the one-element sequence that holds it
find_one(coll, user_id) ==
    IF Matching(coll, user_id) = {} THEN <<>> ELSE <<coll[FirstMatch(coll, user_id)]>>

\* the list that view_bag returns
ViewResponse(body) ==
    [cmd |-> "view", status |-> "ok", published |-> FALSE, body |-> body]

\* view_bag that answers only while the Command API has its producer
view_bag_NeedsProducer(user_id, storeOk) ==
    /\ resp' = IF ~storeOk \/ ~producer
               THEN Response("view", "exception", FALSE)
               ELSE LET user_bag == find_one(bags, user_id)
                    IN  IF user_bag = <<>>
                        THEN ViewResponse(<<>>)
                        ELSE ViewResponse(Head(user_bag).discs)
    /\ UNCHANGED <<inflight, api_status, worker_status, producer, log, pos, committed, alive, bags, issued, clock,
                   applied, restarts, threads>>

\* view_bag that answers 404 when the user has no document
view_bag_NotFound(user_id, storeOk) ==
    /\ resp' = IF ~storeOk
               THEN Response("view", "exception", FALSE)
               ELSE LET user_bag == find_one(bags, user_id)
                    IN  IF user_bag = <<>>
                        THEN Response("view", "not_found", FALSE)
                        ELSE ViewResponse(Head(user_bag).discs)
    /\ UNCHANGED <<producer, log, pos, committed, alive, bags, issued, clock,
                   applied, restarts, inflight, api_status, worker_status, threads>>

\* GET /bag/{user_id}.  storeOk: MongoDB answers the find_one; when it does not
\* find_one raises and the request ends with the exception
view_bag(user_id, storeOk) ==
    /\ resp' = IF ~storeOk
               THEN Response("view", "exception", FALSE)
               ELSE LET user_bag == find_one(bags, user_id)
                    IN  IF user_bag = <<>>
                        THEN ViewResponse(<<>>)
                        ELSE IF HasKey(Head(user_bag), "discs")
                             THEN ViewResponse(Head(user_bag).discs)
                             ELSE ViewResponse(<<>>)
    /\ UNCHANGED <<inflight, api_status, worker_status, producer, log, pos, committed, alive, bags, issued, clock,
                   applied, restarts, threads>>

\* ------------------------------------------------------ other topic writers
\* Values that the worker can meet in the topic and that no handler of the
\* Command API writes
ForeignValues ==
    { value_serializer([event_type |-> "DiscSold", payload |-> [user_id |-> "u1"],
                        timestamp |-> isoformat(0)]),
      value_serializer([payload |-> [user_id |-> "u1"], timestamp |-> isoformat(0)]),
      value_serializer([event_type |-> "DiscAddedToBag", timestamp |-> isoformat(0)]),
      value_serializer([event_type |-> "UserRegistered",
                        payload |-> [username |-> "ann"], timestamp |-> isoformat(0)]),
      value_serializer([event_type |-> "DiscAddedToBag",
                        payload |-> [user_id |-> "u1"], timestamp |-> isoformat(0)]),
      value_serializer([event_type |-> "DiscRemovedFromBag",
                        payload |-> [user_id |-> "u1"], timestamp |-> isoformat(0)]),
      value_serializer([event_type |-> "DiscRemovedFromBag",
                        payload |-> [user_id |-> "u1", disc_id |-> "1"]]),
      [json_text |-> "[1, 2]"],
      [raw |-> "not json"] }

ForeignCount ==
    Cardinality({po \in Partitions \X (1..MaxLog) :
                   /\ po[2] <= Len(log[po[1]])
                   /\ log[po[1]][po[2]].src = "foreign"})

ForeignPublish(part, bytes) ==
    /\ TotalLen < MaxLog
    /\ ForeignCount < MaxForeign
    /\ log' = [log EXCEPT ![part] = Append(@, Record(bytes, "foreign", TotalLen + 1))]
    /\ UNCHANGED <<inflight, api_status, worker_status, producer, pos, committed, alive, bags, issued, clock, resp,
                   applied, restarts, threads>>

\* ------------------------------------------------------------ specification
NoResponse == Response("none", "none", FALSE)

Init ==
    /\ producer \in BOOLEAN
    /\ log = [p \in Partitions |-> <<>>]
    /\ pos = [p \in Partitions |-> 0]
    /\ committed = [p \in Partitions |-> 0]
    /\ alive = [p \in Partitions |-> TRUE]
    /\ bags = <<>>
    /\ issued = {}
    /\ clock = 0
    /\ resp = NoResponse
    /\ applied = <<>>
    /\ restarts = 0
    /\ inflight = [p \in Partitions |-> FALSE]
    /\ api_status = "running"
    /\ worker_status = [p \in Partitions |-> "running"]
    /\ threads = {}

Next ==
    \/ \E username \in Usernames, email \in Emails : register_user(username, email)
    \/ \E user_id \in Users, disc_id \in DiscIdInputs : add_disc_to_bag(user_id, disc_id)
    \/ \E user_id \in Users, disc_id \in DiscIdInputs : remove_disc_from_bag(user_id, disc_id)
    \/ \E user_id \in Users, storeOk \in BOOLEAN : view_bag(user_id, storeOk)
    \/ \E part \in Partitions, bytes \in ForeignValues : ForeignPublish(part, bytes)
    \/ \E p \in Partitions : Consume(p)
    \/ \E p \in Partitions : AutoCommit(p)
    \/ \E p \in Partitions : Restart(p)

Spec == Init /\ [][Next]_vars

\* ------------------------------------------- the worker on a given topic
\* What the Command API can write in one call that reads the clock at t
ApiEvents(t) ==
    {UserRegisteredEvent(u, n, e, t) : u \in Users, n \in Usernames, e \in Emails}
    \cup {DiscAddedEvent(u, Head(CatalogLookup(d)), t) :
            u \in Users, d \in {x \in DiscIdInputs : CatalogLookup(x) # <<>>}}
    \cup {DiscRemovedEvent(u, d, t) : u \in Users, d \in DiscIdInputs}

Registered(events) ==
    {i \in 1..Len(events) : events[i].event_type = "UserRegistered"}

\* topics of n records in publication order, the t-th call stamped with the
\* t-th clock reading; uuid4 gives every registration its own user_id
Topics(n) ==
    {[t \in 1..n |-> Record(value_serializer([events[t] EXCEPT !.timestamp = isoformat(t)]),
                            "api", t)] :
        events \in {f \in [1..n -> ApiEvents(0)] :
                      \A i, j \in Registered(f) :
                          i # j => f[i].payload.user_id # f[j].payload.user_id}}

\* All commands were accepted and the partitioner put them in partition 1
\* before the worker starts; the worker then runs without being restarted, so
\* every record is delivered once.
InitWorker ==
    /\ producer = TRUE
    /\ \E n \in 0..MaxTopic : \E topic \in Topics(n) :
         /\ log = [p \in Partitions |-> IF p = 1 THEN topic ELSE <<>>]
         /\ clock = n
         /\ issued = {value_deserializer(topic[i].bytes).payload.user_id :
                        i \in {j \in 1..n :
                                 value_deserializer(topic[j].bytes).event_type
                                     = "UserRegistered"}}
    /\ pos = [p \in Partitions |-> 0]
    /\ committed = [p \in Partitions |-> 0]
    /\ alive = [p \in Partitions |-> TRUE]
    /\ bags = <<>>
    /\ resp = NoResponse
    /\ applied = <<>>
    /\ restarts = 0
    /\ inflight = [p \in Partitions |-> FALSE]
    /\ api_status = "running"
    /\ worker_status = [p \in Partitions |-> "running"]
    /\ threads = {}

NextWorker ==
    \/ \E p \in Partitions : Consume(p)
    \/ \E p \in Partitions : AutoCommit(p)

SpecWorker == InitWorker /\ [][NextWorker]_vars


\* ------------------------------- the worker on a given topic, with queries
NextReplay ==
    \/ \E p \in Partitions : Consume(p)
    \/ \E user_id \in Users, storeOk \in BOOLEAN : view_bag(user_id, storeOk)

SpecReplay == InitWorker /\ [][NextReplay]_vars

\* ------------------------------------------------------- process start-up
\* python main.py / uvicorn main:app.  Importing main runs
\* 'from utils.database import db_connection' (main.py:17), which builds the
\* DatabaseConnection singleton: _connect pings MongoDB and re-raises
\* ConnectionFailure, so the import fails and the process ends with status 1.
\* Then main.py:26-35 builds the producer; any exception leaves producer = None
\* and the module goes on to define the application.
StartApi(storeOk, brokerOk) ==
    /\ api_status = "starting"
    /\ IF ~storeOk
       THEN /\ api_status' = "exited_1"
            /\ UNCHANGED producer
       ELSE /\ producer' = brokerOk
            /\ api_status' = "running"
    /\ UNCHANGED <<log, pos, committed, alive, bags, issued, clock, resp, applied,
                   restarts, inflight, worker_status, threads>>

\* python worker.py: start_worker().  clientOk: MongoClient(...) returns (it
\* connects lazily, so it also returns while the server cannot be reached);
\* brokerOk: KafkaConsumer(...) returns.  Each except clause logs and returns
\* from start_worker, and the script ends there: exit status 0.
StartWorker(p, clientOk, brokerOk) ==
    /\ worker_status[p] = "starting"
    /\ IF clientOk /\ brokerOk
       THEN /\ worker_status' = [worker_status EXCEPT ![p] = "running"]
            /\ alive' = [alive EXCEPT ![p] = TRUE]
            /\ pos' = [pos EXCEPT ![p] = committed[p]]
       ELSE /\ worker_status' = [worker_status EXCEPT ![p] = "exited_0"]
            /\ UNCHANGED <<alive, pos>>
    /\ UNCHANGED <<producer, log, committed, bags, issued, clock, resp, applied,
                   restarts, inflight, api_status, threads>>

\* the API process is stopped and launched again
RelaunchApi ==
    /\ api_status # "starting"
    /\ api_status' = "starting"
    /\ producer' = FALSE
    /\ UNCHANGED <<log, pos, committed, alive, bags, issued, clock, resp, applied,
                   restarts, inflight, worker_status, threads>>

\* the worker process of partition p is stopped and launched again
RelaunchWorker(p) ==
    /\ worker_status[p] # "starting"
    /\ restarts < MaxRestarts
    /\ restarts' = restarts + 1
    /\ worker_status' = [worker_status EXCEPT ![p] = "starting"]
    /\ alive' = [alive EXCEPT ![p] = FALSE]
    /\ UNCHANGED <<producer, log, pos, committed, bags, issued, clock, resp,
                   applied, inflight, api_status, threads>>

InitLifecycle ==
    /\ producer = FALSE
    /\ log = [p \in Partitions |-> <<>>]
    /\ pos = [p \in Partitions |-> 0]
    /\ committed = [p \in Partitions |-> 0]
    /\ alive = [p \in Partitions |-> FALSE]
    /\ bags = <<>>
    /\ issued = {}
    /\ clock = 0
    /\ resp = NoResponse
    /\ applied = <<>>
    /\ restarts = 0
    /\ inflight = [p \in Partitions |-> FALSE]
    /\ api_status = "starting"
    /\ worker_status = [p \in Partitions |-> "starting"]
    /\ threads = {}

\* the requests that the API serves while its process runs
Serve ==
    /\ api_status = "running"
    /\ \/ \E username \in Usernames, email \in Emails : register_user(username, email)
       \/ \E user_id \in Users, disc_id \in DiscIdInputs : add_disc_to_bag(user_id, disc_id)
       \/ \E user_id \in Users, disc_id \in DiscIdInputs : remove_disc_from_bag(user_id, disc_id)
       \/ \E user_id \in Users, storeOk \in BOOLEAN : view_bag(user_id, storeOk)

\* The consumer's commit timer does not fire in this specification: a worker
\* that is launched again finds no committed offset and reads its partition
\* from the start (auto_offset_reset='earliest').
NextLifecycle ==
    \/ \E storeOk, brokerOk \in BOOLEAN : StartApi(storeOk, brokerOk)
    \/ \E p \in Partitions, clientOk, brokerOk \in BOOLEAN : StartWorker(p, clientOk, brokerOk)
    \/ RelaunchApi
    \/ \E p \in Partitions : RelaunchWorker(p)
    \/ Serve
    \/ \E p \in Partitions : Consume(p)

SpecLifecycle == InitLifecycle /\ [][NextLifecycle]_vars

\* ------------------------------------------- upserts of concurrent workers
\* update_one(..., upsert=True) is a query followed by an update or an insert.
\* The server serialises writes to one document; nothing serialises two
\* upserts that both find no document, because the worker creates no unique
\* index on user_id.  The document that the upsert of rec would insert:
UpsertDocument(rec) == Process(<<>>, rec, TRUE).bags

\* the upsert of the next record of partition p finds no document for its user
UpsertMiss(p) ==
    /\ alive[p]
    /\ ~inflight[p]
    /\ pos[p] < Len(log[p])
    /\ LET new == UpsertDocument(log[p][pos[p] + 1])
       IN  /\ Len(new) = 1
           /\ Matching(bags, new[1].user_id) = {}
    /\ inflight' = [inflight EXCEPT ![p] = TRUE]
    /\ UNCHANGED <<producer, log, pos, committed, alive, bags, issued, clock, resp,
                   applied, restarts, api_status, worker_status, threads>>

\* ... and inserts its document
UpsertInsert(p) ==
    /\ inflight[p]
    /\ LET off == pos[p] + 1
       IN  /\ bags' = bags \o UpsertDocument(log[p][off])
           /\ pos' = [pos EXCEPT ![p] = off]
           /\ applied' = Append(applied, <<p, off>>)
    /\ inflight' = [inflight EXCEPT ![p] = FALSE]
    /\ UNCHANGED <<producer, log, committed, alive, issued, clock, resp,
                   restarts, api_status, worker_status, threads>>

\* the pipeline with the two steps of an upsert told apart
NextRace ==
    \/ \E username \in Usernames, email \in Emails : register_user(username, email)
    \/ \E user_id \in Users, disc_id \in DiscIdInputs : add_disc_to_bag(user_id, disc_id)
    \/ \E user_id \in Users, disc_id \in DiscIdInputs : remove_disc_from_bag(user_id, disc_id)
    \/ \E p \in Partitions : Consume(p)
    \/ \E p \in Partitions : UpsertMiss(p)
    \/ \E p \in Partitions : UpsertInsert(p)

SpecRace == Init /\ [][NextRace]_vars

\* ------------------------------------------------- concurrent request threads
\* add_disc_to_bag and remove_disc_from_bag are plain 'def' handlers: FastAPI
\* runs each request in a thread of its pool.  A thread builds its event, with
\* "timestamp": datetime.utcnow().isoformat(), and only then reaches
\* 'if producer: producer.send(...)'; other threads run in between.

\* main.py:130-142: the catalog check and the event of add_disc_to_bag
BuildAddEvent(user_id, disc_id) ==
    LET found == CatalogLookup(disc_id)
    IN  /\ IF found = <<>>
           THEN /\ resp' = Response("add", "not_found", FALSE)
                /\ UNCHANGED <<clock, threads>>
           ELSE \E now \in Readings :
                  /\ clock' = now
                  /\ threads' = threads \cup
                       {[cmd |-> "add", event |-> DiscAddedEvent(user_id, Head(found), now)]}
                  /\ UNCHANGED resp
        /\ UNCHANGED <<producer, log, pos, committed, alive, bags, issued, applied,
                       restarts, inflight, api_status, worker_status>>

\* main.py:156-163: the event of remove_disc_from_bag
BuildRemoveEvent(user_id, disc_id) ==
    \E now \in Readings :
        /\ clock' = now
        /\ threads' = threads \cup
             {[cmd |-> "remove", event |-> DiscRemovedEvent(user_id, disc_id, now)]}
        /\ UNCHANGED <<producer, log, pos, committed, alive, bags, issued, resp,
                       applied, restarts, inflight, api_status, worker_status>>

\* main.py:145-149 and 165-168: the thread publishes its event and returns
PublishBuilt(thread) ==
    /\ thread \in threads
    /\ threads' = threads \ {thread}
    /\ IF producer
       THEN \E out \in SendOutcomes :
              /\ KafkaSend(thread.event, out)
              /\ resp' = IF out = "raised"
                         THEN Response(thread.cmd, "exception", FALSE)
                         ELSE Response(thread.cmd, "queued", out = "appended")
       ELSE /\ UNCHANGED log
            /\ resp' = Response(thread.cmd, "error", FALSE)
    /\ UNCHANGED <<pos, committed, alive, bags, issued, clock, applied, restarts,
                   inflight, api_status, worker_status, producer>>

NextConcurrent ==
    \/ \E user_id \in Users, disc_id \in DiscIdInputs : BuildAddEvent(user_id, disc_id)
    \/ \E user_id \in Users, disc_id \in DiscIdInputs : BuildRemoveEvent(user_id, disc_id)
    \/ \E thread \in threads : PublishBuilt(thread)
    \/ \E p \in Partitions : Consume(p)

SpecConcurrent == Init /\ [][NextConcurrent]_vars

\* ------------------------------------------------------- reading the history
EventTypes == {"UserRegistered", "DiscAddedToBag", "DiscRemovedFromBag"}

\* the record carries everything that the branch of its event_type reads
WellFormed(rec) ==
    /\ IsDict(rec.bytes)
    /\ LET event == value_deserializer(rec.bytes)
       IN  /\ HasKey(event, "event_type")
           /\ event.event_type \in EventTypes
           /\ HasKey(event, "payload")
           /\ HasKey(event, "timestamp")
           /\ HasKey(event.payload, "user_id")
           /\ event.event_type = "DiscAddedToBag" => HasKey(event.payload, "disc_data")
           /\ event.event_type = "DiscRemovedFromBag" => HasKey(event.payload, "disc_id")

Malformed(rec) == ~WellFormed(rec)

Offsets == {po \in Partitions \X (1..(MaxLog + MaxTopic)) : po[2] <= Len(log[po[1]])}
RecordAt(po) == log[po[1]][po[2]]
EventAt(po) == value_deserializer(RecordAt(po).bytes)
TypeAt(po) == EventAt(po).event_type
UserAt(po) == EventAt(po).payload.user_id

\* the store writes that succeeded for the record at po, as indexes of applied
Applications(po) == {k \in 1..Len(applied) : applied[k] = po}
WasApplied(po) == Applications(po) # {}
FirstApplication(po) ==
    CHOOSE k \in Applications(po) : \A j \in Applications(po) : k <= j

\* the number of entries with id disc_id in a disc sequence
CountDisc(discs, disc_id) ==
    Cardinality({i \in 1..Len(discs) : discs[i].id = disc_id})

\* -------------------------------------------------------------------- C1
\* C1: the committed offset of a partition covers only records whose store
\* write succeeded or that were rejected as malformed.
C1_CommitOnlyAfterApply ==
    \A po \in Offsets :
        po[2] <= committed[po[1]] => (Malformed(RecordAt(po)) \/ WasApplied(po))

\* -------------------------------------------------------------------- C2
\* C2: however often a DiscAddedToBag record is delivered, the user's bag
\* holds the disc once per DiscAddedToBag record of the topic, not once per
\* delivery.
C2_RedeliveryDoesNotDoubleCount ==
    \A i \in 1..Len(bags) : \A d \in DiscIdInputs :
        CountDisc(bags[i].discs, d) <=
            Cardinality({po \in Offsets :
                            /\ WellFormed(RecordAt(po))
                            /\ TypeAt(po) = "DiscAddedToBag"
                            /\ UserAt(po) = bags[i].user_id
                            /\ EventAt(po).payload.disc_data.id = d})

\* -------------------------------------------------------------------- C3
\* C3: the worker does not go past a well-formed record whose store write
\* failed: when a record of a partition has been applied, every earlier
\* well-formed record of the same user in that partition was applied before.
C3_NoApplyPastFailedWrite ==
    \A po \in Offsets : \A k \in Applications(po) :
        \A off \in 1..(po[2] - 1) :
            LET before == <<po[1], off>>
            IN  (WellFormed(RecordAt(before)) /\ UserAt(before) = UserAt(po))
                    => \E j \in Applications(before) : j < k

\* -------------------------------------------------------------------- C4
\* C4: an add-disc and a remove-disc that the Command API published for one
\* user are never applied in the reverse of their order of publication.
C4_PerUserOrderKept ==
    \A po1, po2 \in Offsets :
        ( /\ RecordAt(po1).src = "api" /\ RecordAt(po2).src = "api"
          /\ RecordAt(po1).seq < RecordAt(po2).seq
          /\ UserAt(po1) = UserAt(po2)
          /\ {TypeAt(po1), TypeAt(po2)} = {"DiscAddedToBag", "DiscRemovedFromBag"}
          /\ WasApplied(po1) /\ WasApplied(po2) )
        => FirstApplication(po1) < FirstApplication(po2)

\* -------------------------------------------------------------------- C5
\* C5: without a producer every command answers with the write-unavailable
\* error (or rejects the request), never with an acknowledgement.
C5_FailsClosedWithoutProducer ==
    (~producer /\ resp.cmd \in {"register", "add", "remove"})
        => resp.status \in {"error", "not_found"}

\* -------------------------------------------------------------------- C6
\* C6: with a producer, an acknowledgement ("accepted", "queued") is returned
\* only when the envelope was appended to the topic.
C6_AckOnlyWhenAppended ==
    (producer /\ resp.status \in {"accepted", "queued"}) => resp.published

\* -------------------------------------------------------------------- C10
\* C10: taking a malformed record never ends the consume loop, changes no bag
\* document, and the worker moves on to the next record.
C10_MalformedIsSkipped ==
    [][\A p \in Partitions :
         ( /\ alive[p] /\ pos[p] < Len(log[p])
           /\ Malformed(log[p][pos[p] + 1])
           /\ restarts' = restarts
           /\ (pos'[p] # pos[p] \/ alive'[p] # alive[p]) )
         => (alive'[p] /\ pos'[p] = pos[p] + 1 /\ bags' = bags)]_vars

\* -------------------------------------------------------------------- C7
\* the records of user u in the order in which their store writes succeeded
UserHistory(u) == SelectSeq(applied, LAMBDA po : UserAt(po) = u)

IsAdd(po, u, d) ==
    /\ TypeAt(po) = "DiscAddedToBag" /\ UserAt(po) = u
    /\ EventAt(po).payload.disc_data.id = d

IsRemove(po, u, d) ==
    /\ TypeAt(po) = "DiscRemovedFromBag" /\ UserAt(po) = u
    /\ EventAt(po).payload.disc_id = d

CatalogIds == {discs_catalog[i].id : i \in 1..Len(discs_catalog)}

\* the store writes of u so far are exactly add A, remove A, add B
AddRemoveAdd(u, A, B) ==
    LET h == UserHistory(u)
    IN  /\ Len(h) = 3
        /\ IsAdd(h[1], u, A) /\ IsRemove(h[2], u, A) /\ IsAdd(h[3], u, B)

\* C7: when the worker has applied, for a user, DiscAddedToBag(A), then
\* DiscRemovedFromBag(A), then DiscAddedToBag(B), A # B, each once, the user
\* has one bag document and its disc sequence is exactly the snapshot of B.
C7_AddRemoveAddLeavesB ==
    \A u \in Users : \A A, B \in CatalogIds :
        (A # B /\ AddRemoveAdd(u, A, B))
            => /\ Cardinality(Matching(bags, u)) = 1
               /\ bags[FirstMatch(bags, u)].discs
                    = <<EventAt(UserHistory(u)[3]).payload.disc_data>>

\* the three writes of u have happened, with a write of another user between
C7_Witness ==
    \E u \in Users : \E A, B \in CatalogIds :
        /\ A # B /\ AddRemoveAdd(u, A, B)
        /\ Len(applied) = 4
        /\ UserAt(applied[1]) = u /\ UserAt(applied[4]) = u

\* -------------------------------------------------------------------- C8
\* C8: every store write of a UserRegistered record leaves exactly one bag
\* document for its user: a new one with an empty disc sequence when there was
\* none, and otherwise the collection as it was.
C8_RegistrationIsIdempotent ==
    [][\A p \in Partitions :
         LET po == <<p, pos[p] + 1>>
         IN  ( /\ pos[p] < Len(log[p])
               /\ applied' = Append(applied, po)
               /\ TypeAt(po) = "UserRegistered" )
             => /\ Cardinality(Matching(bags', UserAt(po))) = 1
                /\ IF Matching(bags, UserAt(po)) = {}
                   THEN bags' = Append(bags, [user_id |-> UserAt(po),
                                             discs |-> <<>>,
                                             updated_at |-> EventAt(po).timestamp])
                   ELSE bags' = bags]_vars

\* a UserRegistered record was written a second time, last of all, when the
\* document of its user held a disc
C8_Witness ==
    \E po \in Offsets :
        /\ Len(applied) > 0 /\ applied[Len(applied)] = po
        /\ Cardinality(Applications(po)) >= 2
        /\ TypeAt(po) = "UserRegistered"
        /\ \E i \in Matching(bags, UserAt(po)) : bags[i].discs # <<>>

\* -------------------------------------------------------------------- C9
NoEntry(coll, u, d) == \A i \in Matching(coll, u) : CountDisc(coll[i].discs, d) = 0

\* C9: when the worker takes a DiscRemovedFromBag record whose disc is in no
\* entry of the user's bag, no document appears or disappears, every disc
\* sequence stays as it was, the documents of other users stay as they were,
\* the loop goes on, and with the store available no error is raised.
C9_RemoveAbsentIsNoOp ==
    [][\A p \in Partitions :
         LET po == <<p, pos[p] + 1>>
         IN  ( /\ pos'[p] = pos[p] + 1
               /\ WellFormed(RecordAt(po))
               /\ TypeAt(po) = "DiscRemovedFromBag"
               /\ NoEntry(bags, UserAt(po), EventAt(po).payload.disc_id) )
             => /\ Len(bags') = Len(bags)
                /\ \A i \in 1..Len(bags) :
                     /\ bags'[i].user_id = bags[i].user_id
                     /\ bags'[i].discs = bags[i].discs
                     /\ bags[i].user_id # UserAt(po) => bags'[i] = bags[i]
                /\ alive'[p]
                /\ Process(bags, RecordAt(po), TRUE).outcome = "applied"]_vars

\* the last store write was a remove of a disc that no bag can hold, for a
\* user whose document holds a disc
C9_Witness ==
    \E po \in Offsets :
        /\ Len(applied) > 0 /\ applied[Len(applied)] = po
        /\ TypeAt(po) = "DiscRemovedFromBag"
        /\ EventAt(po).payload.disc_id \notin CatalogIds
        /\ \E i \in Matching(bags, UserAt(po)) :
             bags[i].discs # <<>> /\ bags[i].updated_at = EventAt(po).timestamp

\* ------------------------------------------------------------------ C11
\* C11: an add-disc request whose disc_id is not in the catalog is answered
\* with the not-found error and leaves the topic as it was, with a producer
\* and without one.
C11_UnknownDiscRejectedBeforePublish ==
    [][\A u \in Users, d \in DiscIdInputs \ CatalogIds :
          add_disc_to_bag(u, d) =>
              /\ resp' = Response("add", "not_found", FALSE)
              /\ log' = log]_vars

\* the request was refused while the producer was there and the topic held a
\* record already
C11_Witness ==
    /\ producer
    /\ TotalLen > 0
    /\ resp = Response("add", "not_found", FALSE)

\* ------------------------------------------------------------------ C12
\* a step of one of the four HTTP handlers, whatever its outcome
HandlerStep ==
    \/ \E username \in Usernames, email \in Emails : register_user(username, email)
    \/ \E user_id \in Users, disc_id \in DiscIdInputs : add_disc_to_bag(user_id, disc_id)
    \/ \E user_id \in Users, disc_id \in DiscIdInputs : remove_disc_from_bag(user_id, disc_id)
    \/ \E user_id \in Users, storeOk \in BOOLEAN : view_bag(user_id, storeOk)

\* C12: register, add-disc, remove-disc and view_bag leave every bag document
\* as it was, when they succeed and when they fail; only the worker writes
\* the bags collection.
C12_OnlyWorkerWritesBags ==
    [][bags' # bags =>
          /\ ~HandlerStep
          /\ \E p \in Partitions : pos'[p] = pos[p] + 1]_vars

\* view_bag has run on a bag that holds a disc, and the document is as the
\* handler found it
C12_Witness ==
    /\ resp.cmd = "view"
    /\ resp.status = "ok"
    /\ resp.body # <<>>
    /\ \E i \in 1..Len(bags) : bags[i].discs = resp.body

\* ------------------------------------------------------------------ C13
\* the disc sequence of the user's document as the collection holds it now
StoredDiscs(u) ==
    IF Matching(bags, u) = {} THEN <<>> ELSE bags[FirstMatch(bags, u)].discs

\* C13: while MongoDB answers, view_bag(u) succeeds and returns the disc
\* sequence of u's current document whatever the write path is doing: with or
\* without a producer, with the workers running or stopped.
C13_ViewIgnoresWritePath ==
    [][\A u \in Users :
          view_bag(u, TRUE) => resp' = ViewResponse(StoredDiscs(u))]_vars

\* the API process was started without the broker and has no producer, no
\* worker runs, and view_bag has returned the disc that was applied before
C13_Witness ==
    /\ api_status = "running"
    /\ ~producer
    /\ \A p \in Partitions : ~alive[p]
    /\ applied # <<>>
    /\ resp.cmd = "view"
    /\ resp.status = "ok"
    /\ resp.body # <<>>
    /\ resp.body = StoredDiscs("u1")

\* ------------------------------------------------------------------ C14
\* C14: the bags collection never holds two documents with the same user_id,
\* after any events and duplicates, also when the workers of two partitions
\* upsert for the same new user at the same time.
C14_OneBagPerUser ==
    \A u \in Users : Cardinality(Matching(bags, u)) <= 1

\* ------------------------------------------------------------------ C15
IsReg(po, u) == TypeAt(po) = "UserRegistered" /\ UserAt(po) = u
IsAddOf(po, u) == TypeAt(po) = "DiscAddedToBag" /\ UserAt(po) = u

\* the store writes of u so far, in the three orders of the claim: the add
\* alone, the registration then the add, the add then the registration
AddAlone(u, a) == UserHistory(u) = <<a>> /\ IsAddOf(a, u)
RegThenAdd(u, a) ==
    LET h == UserHistory(u)
    IN  Len(h) = 2 /\ IsReg(h[1], u) /\ h[2] = a /\ IsAddOf(a, u)
AddThenReg(u, a) ==
    LET h == UserHistory(u)
    IN  Len(h) = 2 /\ h[1] = a /\ IsAddOf(a, u) /\ IsReg(h[2], u)

\* C15: for a user without a document, UserRegistered then DiscAddedToBag(X, t),
\* DiscAddedToBag(X, t) alone, and DiscAddedToBag(X, t) then UserRegistered
\* all end with the same document: user_id, discs = <<X>>, updated_at = t.
C15_CreationPathsConverge ==
    \A u \in Users : \A a \in Offsets :
        (AddAlone(u, a) \/ RegThenAdd(u, a) \/ AddThenReg(u, a))
            => /\ Cardinality(Matching(bags, u)) = 1
               /\ bags[FirstMatch(bags, u)]
                    = [user_id |-> u,
                       discs |-> <<EventAt(a).payload.disc_data>>,
                       updated_at |-> EventAt(a).timestamp]

\* one user was registered and then got a disc, the other got the same disc
\* and was registered afterwards
C15_Witness ==
    \E a1, a2 \in Offsets :
        /\ RegThenAdd("u1", a1)
        /\ AddThenReg("u2", a2)
        /\ EventAt(a1).payload.disc_data = EventAt(a2).payload.disc_data
        /\ bags[FirstMatch(bags, "u1")].discs = bags[FirstMatch(bags, "u2")].discs

\* ------------------------------------------------------------------ C16
\* every record of the topic has been written to the store once, in the order
\* in which it was published
AppliedOnceInOrder ==
    /\ \A p \in Partitions : pos[p] = Len(log[p])
    /\ Len(applied) = TotalLen
    /\ \A k \in 1..Len(applied) : RecordAt(applied[k]).seq = k

\* the published commands of the topic in publish order
Published == [k \in 1..TotalLen |->
                EventAt(CHOOSE po \in Offsets : RecordAt(po).seq = k)]

\* the user's id is the one that the registration returned: no command of u
\* was accepted before u's registration
RegisteredFirst(u) ==
    \A k \in 1..TotalLen :
        (Published[k].event_type = "UserRegistered" /\ Published[k].payload.user_id = u)
            => \A j \in 1..(k - 1) : Published[j].payload.user_id # u

\* replay of the accepted commands of u: register gives the empty bag, add
\* appends the catalog entry of the id, remove deletes every entry of the id
Replay(u) ==
    LET RECURSIVE Run(_, _)
        Run(k, discs) ==
            IF k > TotalLen THEN discs
            ELSE LET e == Published[k]
                 IN  IF e.payload.user_id # u THEN Run(k + 1, discs)
                     ELSE IF e.event_type = "UserRegistered" THEN Run(k + 1, <<>>)
                     ELSE IF e.event_type = "DiscAddedToBag"
                          THEN Run(k + 1, discs \o CatalogLookup(e.payload.disc_data.id))
                          ELSE Run(k + 1, SelectSeq(discs,
                                               LAMBDA d : d.id # e.payload.disc_id))
    IN  Run(1, <<>>)

\* C16: once every published event has been applied exactly once in publish
\* order, view_bag(u) returns the replay of u's accepted commands.
C16_ViewIsReplayOfCommands ==
    [][\A u \in Users :
          (AppliedOnceInOrder /\ RegisteredFirst(u) /\ view_bag(u, TRUE))
              => resp' = ViewResponse(Replay(u))]_vars

\* register, add disc "2", remove disc "2", all applied: the view is empty
C16_Witness ==
    /\ AppliedOnceInOrder
    /\ TotalLen = 3
    /\ IsReg(<<1, 1>>, "u1")
    /\ IsAdd(<<1, 2>>, "u1", "2")
    /\ IsRemove(<<1, 3>>, "u1", "2")
    /\ resp = ViewResponse(<<>>)

\* ------------------------------------------------------------------ C17
\* timestamp of the event that the worker applied last for u
LastApplied(u) == EventAt(UserHistory(u)[Len(UserHistory(u))]).timestamp

\* C17: the updated_at of a user's bag document is the timestamp of the last
\* event that the worker applied for that user, whichever of UserRegistered,
\* DiscAddedToBag, DiscRemovedFromBag it was.
C17_UpdatedAtIsLastApplied ==
    \A u \in Users :
        (Matching(bags, u) # {} /\ UserHistory(u) # <<>>)
            => bags[FirstMatch(bags, u)].updated_at = LastApplied(u)

\* <<>> while u has no document, else <<t>>, t the timestamp of the last
\* applied event of u that wrote the document: the event that created it, a
\* DiscAddedToBag, or a DiscRemovedFromBag
LastWrite(u) ==
    LET h == UserHistory(u)
        RECURSIVE Run(_, _)
        Run(k, stamp) ==
            IF k > Len(h) THEN stamp
            ELSE LET e == EventAt(h[k])
                 IN  IF e.event_type = "DiscAddedToBag" THEN Run(k + 1, <<e.timestamp>>)
                     ELSE IF stamp = <<>> /\ e.event_type = "UserRegistered"
                          THEN Run(k + 1, <<e.timestamp>>)
                     ELSE IF stamp # <<>> /\ e.event_type = "DiscRemovedFromBag"
                          THEN Run(k + 1, <<e.timestamp>>)
                     ELSE Run(k + 1, stamp)
    IN  Run(1, <<>>)

\* C17, amended: updated_at is the timestamp of the last applied event of the
\* user that wrote the document; a UserRegistered applied to an existing
\* document is no such event and leaves updated_at as it was.
C17_UpdatedAtIsLastWrite ==
    \A u \in Users :
        /\ (Matching(bags, u) = {}) = (LastWrite(u) = <<>>)
        /\ Matching(bags, u) # {}
              => bags[FirstMatch(bags, u)].updated_at = LastWrite(u)[1]

\* the last event applied for a user is a UserRegistered, applied when the
\* document existed, and updated_at is the stamp of the earlier write
C17_Witness ==
    \E u \in Users :
        /\ Len(UserHistory(u)) >= 2
        /\ IsReg(UserHistory(u)[Len(UserHistory(u))], u)
        /\ Matching(bags, u) # {}
        /\ bags[FirstMatch(bags, u)].updated_at # LastApplied(u)
        /\ bags[FirstMatch(bags, u)].updated_at = LastWrite(u)[1]

\* ------------------------------------------------------------------ C18
\* the value is a JSON object whose event_type is none of the three known
UnknownType(rec) ==
    /\ IsDict(rec.bytes)
    /\ HasKey(value_deserializer(rec.bytes), "event_type")
    /\ value_deserializer(rec.bytes).event_type \notin EventTypes

\* C18: when the worker takes a record whose event_type is outside the closed
\* set, the pass of the loop ends with an error outcome (a logged rejection),
\* as it does for an event that fails, and not as a pass that nothing marks.
C18_UnknownTypeIsRejected ==
    [][\A p \in Partitions :
          ( /\ alive[p]
            /\ pos[p] < Len(log[p])
            /\ pos'[p] = pos[p] + 1
            /\ UnknownType(log[p][pos[p] + 1]) )
          => \A storeOk \in BOOLEAN :
                Process(bags, log[p][pos[p] + 1], storeOk).outcome = "error"]_vars

\* ------------------------------------------------------------------ C19
\* C19: a process that cannot establish one of its two connections at
\* start-up ends with a non-zero exit status: the worker without its store
\* client or its consumer, the API without the broker or the store.  It does
\* not keep running and does not end with status 0.
C19_FailedStartExitsNonZero ==
    [][/\ \A p \in Partitions : \A clientOk, brokerOk \in BOOLEAN :
            (StartWorker(p, clientOk, brokerOk) /\ ~(clientOk /\ brokerOk))
                => worker_status'[p] = "exited_1"
       /\ \A storeOk, brokerOk \in BOOLEAN :
            (StartApi(storeOk, brokerOk) /\ ~(storeOk /\ brokerOk))
                => api_status' = "exited_1"]_vars

\* ------------------------------------------------------------------ C20
\* C20: view_bag(u) only reads.  When MongoDB answers it returns the empty
\* list if there is no document for u, and otherwise the discs of u's
\* document, all of them, in the order in which they are stored; no variable
\* other than the response changes.
C20_ViewIsTotalPureRead ==
    [][\A u \in Users :
          view_bag(u, TRUE) =>
              /\ resp'.status = "ok"
              /\ IF \A i \in 1..Len(bags) : bags[i].user_id # u
                 THEN resp'.body = <<>>
                 ELSE \E i \in 1..Len(bags) :
                        /\ bags[i].user_id = u
                        /\ Len(resp'.body) = Len(bags[i].discs)
                        /\ \A k \in 1..Len(bags[i].discs) : resp'.body[k] = bags[i].discs[k]
              /\ UNCHANGED <<producer, log, pos, committed, alive, bags, issued,
                             clock, applied, restarts, inflight, api_status,
                             worker_status, threads>>]_vars

\* events were applied, none of them created a document, and view_bag has
\* returned the empty list
C20_Witness ==
    /\ applied # <<>>
    /\ bags = <<>>
    /\ resp = ViewResponse(<<>>)

\* ------------------------------------------------------------------ C21
\* number of the reading that an envelope's timestamp carries
Stamp(rec) == value_deserializer(rec.bytes).timestamp[2]

\* C21: in every partition of the topic, of two records that the API process
\* has published the one appended first carries the smaller or the same
\* timestamp, also when their requests were handled at the same time.
C21_TimestampsFollowLogOrder ==
    \A p \in Partitions : \A i, j \in 1..Len(log[p]) :
        (i < j /\ log[p][i].src = "api" /\ log[p][j].src = "api")
            => Stamp(log[p][i]) <= Stamp(log[p][j])

\* ------------------------------------------------------------------ C22
\* positions of the entries of discs whose id is not d
KeptPositions(discs, d) == {k \in 1..Len(discs) : discs[k].id # d}

\* after is before without its entries of id d, the others in their order
RemovedAll(before, after, d) ==
    LET kept == KeptPositions(before, d)
    IN  /\ \A k \in 1..Len(after) : after[k].id # d
        /\ Len(after) = Cardinality(kept)
        /\ \A k \in 1..Len(after) :
             after[k] = before[CHOOSE x \in kept :
                                 Cardinality({y \in kept : y <= x}) = k]

\* C22: a write of DiscRemovedFromBag(u, d) leaves no entry of id d in u's
\* disc sequence, however many there were, keeps u's other entries in their
\* order, and leaves the documents of all other users as they were.
C22_RemoveTakesEveryEntry ==
    [][\A p \in Partitions :
         LET po == <<p, pos[p] + 1>>
         IN  ( /\ pos[p] < Len(log[p])
               /\ applied' = Append(applied, po)
               /\ TypeAt(po) = "DiscRemovedFromBag" )
             => /\ Len(bags') = Len(bags)
                /\ \A i \in 1..Len(bags) :
                     /\ bags'[i].user_id = bags[i].user_id
                     /\ IF bags[i].user_id = UserAt(po)
                        THEN RemovedAll(bags[i].discs, bags'[i].discs,
                                        EventAt(po).payload.disc_id)
                        ELSE bags'[i] = bags[i]]_vars

\* u1 got disc "1", disc "2" and disc "1" again; the remove of disc "1" was
\* written last and left disc "2" alone
C22_Witness ==
    LET h == UserHistory("u1")
    IN  /\ Len(h) = 4
        /\ IsAdd(h[1], "u1", "1") /\ IsAdd(h[2], "u1", "2") /\ IsAdd(h[3], "u1", "1")
        /\ IsRemove(h[4], "u1", "1")
        /\ Len(bags[FirstMatch(bags, "u1")].discs) = 1
        /\ bags[FirstMatch(bags, "u1")].discs[1].id = "2"

\* ------------------------------------------------------------------ C23
\* C23: a command that names a disc_id outside the catalog publishes no event,
\* remove-disc as well as add-disc: its step leaves the topic as it was.
C23_UnknownDiscNeverPublished ==
    [][\A u \in Users, d \in DiscIdInputs \ CatalogIds :
          (add_disc_to_bag(u, d) \/ remove_disc_from_bag(u, d)) => log' = log]_vars

====
